---- MODULE Spec2Model ----
(***************************************************************************)
(* Chess-Vision-Pro-App: the App component (src/App.tsx, variants 2.6 and  *)
(* 3.6), the StockfishEngine service (src/services/engineService.ts), the  *)
(* engine worker it talks to and the capture interval of CameraFeed.       *)
(*                                                                         *)
(* The rules engine (chess.js) is an external library.  It is represented  *)
(* by a small board game with the same interface: a strip of NSq squares   *)
(* holding the two kings, a king stepping to a neighbouring square that is *)
(* not next to the other king.  A position ("FEN") is a record of the      *)
(* placement, the side to move and the two move counters.                  *)
(*                                                                         *)
(* Spec is the whole program.  SpecApp is the App with a silent engine     *)
(* worker, SpecEngine the engine service with a client that calls it in    *)
(* any order.                                                              *)
(***************************************************************************)
EXTENDS Integers, Sequences, FiniteSets, TLC

(***************************************************************************)
(* Bounds of the model.                                                    *)
(***************************************************************************)
\* number of squares of the strip board
NSq == 5
\* a rules-engine move is explored only while the halfmove clock is below this
MaxHalf == 1
\* recognizer calls started in one behaviour
MaxCaptures == 2
\* capture ticks counted as dropped during one recognizer call
MaxDrops == 1
\* searches started by analyze() in one behaviour
MaxAnalyze == 2
\* searches started in one behaviour of the specification of the override window
OverrideSearches == 4
\* searches started in one behaviour of a session after its first search
SessionSearches == 3
\* recognizer calls started in one behaviour of the specification of the estimator
EstimatorCaptures == 4
\* samples a session of the specification of the estimator may have recorded before
PriorCount == 9
\* fields of the text the recognizer returns
MaxFields == 7
\* info lines in flight from the worker to the main thread
MaxOutbox == 1
\* depth of the first info line of a search (the real engine starts at 1)
FirstDepth == 5
\* depth of the last info line of a search (the real engine: go depth 16)
LastDepth == 7

(***************************************************************************)
(* Program constants.                                                      *)
(***************************************************************************)
\* engineService.ts:71  results are reported from this depth on
MinReportDepth == 6
\* engineService.ts:54  setoption name MultiPV value 2
MultiPV == 2
\* App.tsx:369  initial rating, and base of the rating formula (App.tsx:453)
BaseElo == 800
\* App.tsx:453  scaling factor applied to the average accuracy
EloScale == 22
\* App.tsx:454  stability ceiling
MaxStability == 100
\* App.tsx:454  stability gained per sample
StabilityStep == 10
\* App.tsx:451  accuracy recorded for a sample that matches the prediction
MatchScore == 100

(***************************************************************************)
(* Squares and their names.                                                *)
(***************************************************************************)
SquareName == <<"a1", "b1", "c1", "d1", "e1", "f1">>

Squares == {SquareName[i] : i \in 1..NSq}

SquareIndex(s) == CHOOSE i \in 1..NSq : SquareName[i] = s

\* String.prototype.toUpperCase on a square name
ToUpperCase(s) ==
  CASE s = "a1" -> "A1" [] s = "b1" -> "B1" [] s = "c1" -> "C1"
    [] s = "d1" -> "D1" [] s = "e1" -> "E1" [] s = "f1" -> "F1"
    [] OTHER -> s

\* String.prototype.toLowerCase on a square name
ToLowerCase(s) ==
  CASE s = "A1" -> "a1" [] s = "B1" -> "b1" [] s = "C1" -> "c1"
    [] s = "D1" -> "d1" [] s = "E1" -> "e1" [] s = "F1" -> "f1"
    [] OTHER -> s

(***************************************************************************)
(* Positions.  pieces = <<square of K, square of k>>.                      *)
(***************************************************************************)
\* the empty string '' in the place of a FEN
NoFen == [pieces |-> <<0, 0>>, turn |-> "", half |-> 0, full |-> 0]

\* a placement with one K and one k that the rules engine cannot load
BadRows == <<0, 0>>

INITIAL_FEN == [pieces |-> <<1, NSq>>, turn |-> "w", half |-> 0, full |-> 1]

Abs(x) == IF x < 0 THEN -x ELSE x

\* placements the rules engine accepts
ValidPieces == {p \in (1..NSq) \X (1..NSq) : Abs(p[1] - p[2]) >= 2}

\* fen.split(' ')[0]
Pieces(fen) == fen.pieces

\* fen.split(' ')[1] || 'w'
TurnField(fen) == IF fen.turn = "" THEN "w" ELSE fen.turn

\* new Chess(fen) / game.load(fen) succeed
Loadable(fen) == fen.pieces \in ValidPieces /\ fen.turn \in {"w", "b"}

NoMove == [from |-> "", to |-> ""]

\* game.moves({verbose: true}): the legal moves in generation order
Moves(fen) ==
  LET me    == IF fen.turn = "w" THEN fen.pieces[1] ELSE fen.pieces[2]
      other == IF fen.turn = "w" THEN fen.pieces[2] ELSE fen.pieces[1]
      ok(t) == t \in 1..NSq /\ Abs(t - other) >= 2
      mv(t) == [from |-> SquareName[me], to |-> SquareName[t]]
  IN  (IF ok(me - 1) THEN <<mv(me - 1)>> ELSE <<>>) \o
      (IF ok(me + 1) THEN <<mv(me + 1)>> ELSE <<>>)

MoveSet(fen) == {Moves(fen)[i] : i \in 1..Len(Moves(fen))}

\* game.move(m) followed by game.fen()
ApplyMove(fen, m) ==
  LET t == SquareIndex(m.to)
  IN  [pieces |-> IF fen.turn = "w" THEN <<t, fen.pieces[2]>>
                                    ELSE <<fen.pieces[1], t>>,
       turn   |-> IF fen.turn = "w" THEN "b" ELSE "w",
       half   |-> fen.half + 1,
       full   |-> IF fen.turn = "b" THEN fen.full + 1 ELSE fen.full]


(***************************************************************************)
(* State.                                                                  *)
(***************************************************************************)
VARIABLES
  variant,                \* which App of src/App.tsx runs: "v26" or "v36"
  currentFen,             \* useState: the authoritative position
  boardOrientation,       \* useState: colour at the bottom of the board
  isAutoSyncEnabled,      \* useState
  lastVisionError,        \* useState: string | null
  activeCrop,             \* useState: TRUE when a bounding box is stored
  lastOpponentMove,       \* useState: highlight
  estimatedElo,           \* useState (3.6)
  eloStability,           \* useState (3.6)
  opponentMoveAccuracy,   \* useRef: list of samples (3.6)
  manualOverrideActive,   \* useState (3.6)
  manualPauseTimer,       \* number of pending setTimeout callbacks of the override window
  timerCleared,           \* the clearTimeout of the last successful local move cancelled a pending callback
  samplesCleared,         \* the last handleReset found samples and an analysis result to clear
  gameRef,                \* useRef: position held by the rules-engine object
  visionInFlight,         \* useRef (3.6)
  visionCooldown,         \* useRef (2.6)
  cooldownTimer,          \* number of pending setTimeout callbacks that clear visionCooldown
  visionCalls,            \* recognizer calls awaiting their result, each with the closure of its caller
  effectPending,          \* the analysis effect of the last commit has not run yet
  stream,                 \* CameraFeed useState: a capture stream is open
  intervalOn,             \* CameraFeed: the capture interval is registered
  engineResult,           \* useState: EngineResult | null
  isEngineThinking,       \* useState
  previousEngineBestMove, \* useRef (3.6)
  activeFen,              \* StockfishEngine.activeFen
  currentMoves,           \* StockfishEngine.currentMoves : rank -> EngineMove
  lastDepth,              \* StockfishEngine.lastDepth
  onResultCallback,       \* StockfishEngine.onResultCallback
  inbox,                  \* messages posted to the worker, not yet handled
  wPos,                   \* worker: position set by the last 'position' message
  wSearching,             \* worker: a search is running
  wDepth,                 \* worker: depth of the next info line
  wRank,                  \* worker: multipv of the next info line
  outbox,                 \* info lines posted by the worker, not yet handled
  lastCall,               \* the callback passed to the most recent call of analyze()
  published,              \* the result handed to the callback most recently since the last new search
  sinceStop,              \* the 'position' and 'go' messages the worker handled since the last 'stop'
  nCaptures,              \* recognizer calls started
  nDropped,               \* capture ticks that returned at the first line of the handler,
                          \* since a recognizer call last started or finished
  nAnalyze,               \* searches started
  given,                  \* the fields the recognizer's text was written from
  raw,                    \* the text passed as result.fen: a sequence of characters
  fenOut,                 \* what forceValidFen(raw) returned, once called
  visionOut,              \* what analyzeBoardVision returned for raw, once called
  inferOld,               \* move inference on its own: the previous position
  inferNew,               \* the new position
  inferPlayed,            \* the moves inferNew was reached by from inferOld, when it was reached by moves
  inferOut                \* what detectMove and the inline loop of 3.6 returned, once called

\* App state other than what the result callback writes
appVars == <<variant, currentFen, boardOrientation, isAutoSyncEnabled, lastVisionError,
            activeCrop, lastOpponentMove, estimatedElo, eloStability,
            opponentMoveAccuracy, manualOverrideActive, manualPauseTimer, timerCleared,
            samplesCleared, gameRef, visionInFlight, visionCooldown, cooldownTimer, visionCalls,
            effectPending, stream, intervalOn, nCaptures, nDropped>>

\* one text of the recognizer and what was made of it
fenVars == <<given, raw, fenOut, visionOut>>

\* one pair of positions handed to the move inference and what it returned
inferVars == <<inferOld, inferNew, inferPlayed, inferOut>>

uiVars == <<appVars, fenVars, inferVars>>

resultVars == <<engineResult, isEngineThinking, previousEngineBestMove>>

engineVars == <<activeFen, currentMoves, lastDepth, onResultCallback, published, nAnalyze>>

\* what a call of analyze() or stop() may write
callVars == <<engineVars, lastCall, inbox>>

workerVars == <<wPos, wSearching, wDepth, wRank, sinceStop>>

vars == <<uiVars, resultVars, engineVars, lastCall, workerVars, inbox, outbox>>

(***************************************************************************)
(* StockfishEngine (src/services/engineService.ts).                        *)
(***************************************************************************)
Ranks == 1..MultiPV

\* no entry of the map / no line.  d, rank and src are not fields of the
\* program's EngineMove: d stands for the evaluation and confidence of the
\* line (they change from line to line), rank is the map key the move was
\* stored under and src is the position the worker computed the line for.
NoEngineMove == [from |-> "", to |-> "", d |-> 0, rank |-> 0, src |-> NoFen]

\* EngineResult | null
NoResult == [some |-> FALSE, moves |-> <<>>, depth |-> 0, fen |-> NoFen]

NoCallback == [fen |-> NoFen, id |-> 0]

Msg(c, f) == [cmd |-> c, fen |-> f]

\* the move built from an info line (engineService.ts:72-88)
MakeEngineMove(line) ==
  [from |-> ToUpperCase(line.pv.from), to |-> ToUpperCase(line.pv.to),
   d |-> line.depth, rank |-> line.multipv, src |-> line.src]

\* the entries in descending key order: the sort with its comparator reversed
RECURSIVE SortedDownFrom(_, _)
SortedDownFrom(map, r) ==
  IF r > MultiPV THEN <<>>
  ELSE SortedDownFrom(map, r + 1) \o (IF map[r] = NoEngineMove THEN <<>> ELSE <<map[r]>>)

\* Array.from(currentMoves.entries()).sort(([a],[b]) => a - b).map(([_, m]) => m)
RECURSIVE SortedFrom(_, _)
SortedFrom(map, r) ==
  IF r > MultiPV THEN <<>>
  ELSE (IF map[r] = NoEngineMove THEN <<>> ELSE <<map[r]>>) \o SortedFrom(map, r + 1)

SortedMoves(map) == SortedFrom(map, 1)

\* currentMoves.set(multiPv, move)
MapSet(map, r, m) == [map EXCEPT ![r] = m]

\* the messages of analyze() without the 'stop' of engineService.ts:133
AnalyzeMessagesWithoutStop(fen) ==
  << Msg("ucinewgame", NoFen), Msg("isready", NoFen),
     Msg("position", fen), Msg("go", NoFen) >>

\* the messages analyze() posts for a new search (engineService.ts:133-144)
AnalyzeMessages(fen) ==
  << Msg("stop", NoFen), Msg("ucinewgame", NoFen), Msg("isready", NoFen),
     Msg("position", fen), Msg("go", NoFen) >>

\* a callback without the test of the tag
AcceptsAnyTag(cb, res) == TRUE

\* the test of the App's result callback (App.tsx:478, App.tsx:124): cb.fen
\* is the currentFen the closure captured
Accepts(cb, res) == res.fen = cb.fen

\* the App's result callback (App.tsx:477-488, App.tsx:123-128)
OnResult(cb, res) ==
  IF Accepts(cb, res)
  THEN /\ engineResult' = res
       /\ isEngineThinking' = FALSE
       /\ previousEngineBestMove' =
            IF variant = "v36" /\ Len(res.moves) > 0
            THEN [from |-> ToLowerCase(res.moves[1].from), to |-> ToLowerCase(res.moves[1].to)]
            ELSE previousEngineBestMove
  ELSE UNCHANGED resultVars

\* analyze() without the early return
NeverAlreadyAnalyzing(fen) == FALSE

\* analyze() returns at once (engineService.ts:125)
AlreadyAnalyzing(fen) == activeFen = fen

\* StockfishEngine.analyze (engineService.ts:123-145)
Analyze(fen, cb) ==
  /\ lastCall' = cb
  /\ IF AlreadyAnalyzing(fen)
     THEN UNCHANGED <<engineVars, inbox>>
     ELSE /\ activeFen' = fen
          /\ currentMoves' = [r \in Ranks |-> NoEngineMove]
          /\ onResultCallback' = cb
          /\ inbox' = inbox \o AnalyzeMessages(fen)
          /\ published' = NoResult
          /\ nAnalyze' = nAnalyze + 1
          /\ UNCHANGED lastDepth

\* StockfishEngine.stop (engineService.ts:147-150)
Stop ==
  /\ activeFen' = NoFen
  /\ UNCHANGED lastCall
  /\ inbox' = Append(inbox, Msg("stop", NoFen))
  /\ UNCHANGED <<currentMoves, lastDepth, onResultCallback, published, nAnalyze>>

\* StockfishEngine.parseInfoLine (engineService.ts:62-107), called by
\* worker.onmessage (engineService.ts:42-49) for the next line in flight
ParseInfoLine ==
  /\ outbox # <<>>
  /\ LET line == Head(outbox)
     IN  IF line.pv # NoMove /\ line.depth >= MinReportDepth
         THEN LET map == MapSet(currentMoves, line.multipv, MakeEngineMove(line))
                  res == [some |-> TRUE, moves |-> SortedMoves(map),
                          depth |-> line.depth, fen |-> activeFen]
              IN  /\ currentMoves' = map
                  /\ lastDepth' = line.depth
                  /\ IF onResultCallback # NoCallback
                     THEN /\ OnResult(onResultCallback, res)
                          /\ published' = res
                     ELSE UNCHANGED <<resultVars, published>>
         ELSE UNCHANGED <<currentMoves, lastDepth, resultVars, published>>
  /\ outbox' = Tail(outbox)
  /\ UNCHANGED <<activeFen, onResultCallback, nAnalyze, lastCall, inbox, workerVars, uiVars>>

(***************************************************************************)
(* The engine worker (the UCI engine loaded at engineService.ts:40).       *)
(***************************************************************************)
\* the worker's state after it handled message m in state w
Handle(w, m) ==
  [pos       |-> IF m.cmd = "position" THEN m.fen ELSE w.pos,
   searching |-> CASE m.cmd = "go" -> TRUE
                   [] m.cmd = "stop" -> FALSE
                   [] OTHER -> w.searching,
   depth     |-> IF m.cmd = "go" THEN FirstDepth ELSE w.depth,
   rank      |-> IF m.cmd = "go" THEN 1 ELSE w.rank,
   since     |-> CASE m.cmd = "stop" -> <<>>
                   [] m.cmd \in {"position", "go"} /\ Len(w.since) < 3
                        -> Append(w.since, m.cmd)
                   [] OTHER -> w.since]

RECURSIVE HandleAll(_, _)
HandleAll(w, msgs) ==
  IF msgs = <<>> THEN w ELSE HandleAll(Handle(w, Head(msgs)), Tail(msgs))

\* the worker handles the messages posted to it, in the order they were
\* posted.  It posts nothing between two of them: a search posts lines only
\* after the 'go' that ends a batch of analyze(), and 'stop' begins the next.
WorkerReceive ==
  /\ inbox # <<>>
  /\ LET w == HandleAll([pos |-> wPos, searching |-> wSearching, depth |-> wDepth,
                         rank |-> wRank, since |-> sinceStop], inbox)
     IN  /\ wPos' = w.pos
         /\ wSearching' = w.searching
         /\ wDepth' = w.depth
         /\ wRank' = w.rank
         /\ sinceStop' = w.since
  /\ inbox' = <<>>
  /\ UNCHANGED <<uiVars, resultVars, engineVars, lastCall, outbox>>

\* the first move of the line of rank r at depth d: the engine ranks the
\* legal moves, and the ranking it reports changes from one depth to the next
PvMove(fen, r, d) == Moves(fen)[((r + d) % Len(Moves(fen))) + 1]

\* the running search posts its next info line: iterative deepening, at each
\* depth one line per rank for which the position has a move
WorkerEmit ==
  /\ wSearching
  /\ Len(outbox) < MaxOutbox
  /\ LET n == IF Len(Moves(wPos)) < MultiPV THEN Len(Moves(wPos)) ELSE MultiPV
     IN  IF n = 0 \/ wDepth > LastDepth
         THEN /\ wSearching' = FALSE
              /\ UNCHANGED <<wDepth, wRank, outbox>>
         ELSE /\ outbox' = Append(outbox, [depth |-> wDepth, multipv |-> wRank,
                                           pv |-> PvMove(wPos, wRank, wDepth),
                                           src |-> wPos])
              /\ wRank' = IF wRank < n THEN wRank + 1 ELSE 1
              /\ wDepth' = IF wRank < n THEN wDepth ELSE wDepth + 1
              /\ UNCHANGED wSearching
  /\ UNCHANGED <<wPos, sinceStop, inbox, uiVars, resultVars, engineVars, lastCall>>


(***************************************************************************)
(* The App (src/App.tsx).  State setters of one handler are committed in   *)
(* the step of the handler.  The analysis effect of a commit made by a     *)
(* click handler runs in the same step; the one of a commit made after an  *)
(* await runs in a step of its own (effectPending), before any other App   *)
(* handler, and engine output may be handled in between.                   *)
(***************************************************************************)
\* isUserTurn (App.tsx:398-402, App.tsx:36-41)
IsUserTurn(fen, orient) ==
  \/ TurnField(fen) = "w" /\ orient = "white"
  \/ TurnField(fen) = "b" /\ orient = "black"

\* the isAnalyzing prop without the override term, as 2.6 passes it
IsAnalyzingPropIgnoringOverride(v, auto, override) == auto

\* the isAnalyzing prop of CameraFeed (App.tsx:562 for 3.6, App.tsx:197 for 2.6)
IsAnalyzingProp(v, auto, override) ==
  IF v = "v36" THEN auto /\ ~override ELSE auto

\* CameraFeed interval effect (CameraFeed.tsx:95-102)
IntervalRegistered(isAnalyzing, hasStream) == isAnalyzing /\ hasStream

\* the first line of handleFrameCapture without the in-flight guard
CaptureAllowedWithoutInFlightGuard ==
  IF variant = "v36"
  THEN isAutoSyncEnabled /\ ~manualOverrideActive
  ELSE isAutoSyncEnabled

\* handleFrameCapture passes its first line (App.tsx:405, App.tsx:67)
CaptureAllowed ==
  IF variant = "v36"
  THEN ~visionInFlight /\ isAutoSyncEnabled /\ ~manualOverrideActive
  ELSE ~visionCooldown /\ isAutoSyncEnabled

\* the body of the analysis effect for the committed position and
\* orientation (App.tsx:475-489, App.tsx:120-134), less setEngineResult
AnalysisEffect(fen, orient) ==
  IF variant = "v36" \/ IsUserTurn(fen, orient)
  THEN /\ isEngineThinking' = TRUE
       /\ Analyze(fen, [fen |-> fen, id |-> 0])
  ELSE /\ isEngineThinking' = FALSE
       /\ Stop

\* the 2.6 effect clears the result when it is not the user's turn (App.tsx:130)
EffectClearsResult(fen, orient) == variant = "v26" /\ ~IsUserTurn(fen, orient)

\* the effect's dependencies changed (App.tsx:489, App.tsx:134)
DepsChanged(fen, orient) ==
  \/ fen # currentFen
  \/ variant = "v26" /\ orient # boardOrientation

\* the analysis effect of the first render and of commits made after an await
RunEffect ==
  /\ effectPending
  /\ nAnalyze < MaxAnalyze
  /\ effectPending' = FALSE
  /\ AnalysisEffect(currentFen, boardOrientation)
  /\ engineResult' = IF EffectClearsResult(currentFen, boardOrientation)
                     THEN NoResult ELSE engineResult
  /\ UNCHANGED <<fenVars, inferVars, variant, timerCleared, samplesCleared, currentFen, boardOrientation, isAutoSyncEnabled, lastVisionError,
                 activeCrop, lastOpponentMove, estimatedElo, eloStability,
                 opponentMoveAccuracy, manualOverrideActive, manualPauseTimer, gameRef,
                 visionInFlight, visionCooldown, cooldownTimer, visionCalls, stream,
                 intervalOn, nCaptures, nDropped, previousEngineBestMove, workerVars, outbox>>

\* CameraFeed.startCapture (CameraFeed.tsx:24-56).  stopCapture is left out:
\* a closed stream only keeps the interval from ticking, and a tick is never
\* forced to happen.
startCapture ==
  /\ ~effectPending
  /\ ~stream
  /\ stream' = TRUE
  /\ intervalOn' = IntervalRegistered(
                     IsAnalyzingProp(variant, isAutoSyncEnabled, manualOverrideActive), TRUE)
  /\ UNCHANGED <<fenVars, inferVars, variant, timerCleared, samplesCleared, currentFen, boardOrientation, isAutoSyncEnabled, lastVisionError,
                 activeCrop, lastOpponentMove, estimatedElo, eloStability,
                 opponentMoveAccuracy, manualOverrideActive, manualPauseTimer, gameRef,
                 visionInFlight, visionCooldown, cooldownTimer, visionCalls, effectPending,
                 nCaptures, nDropped, resultVars, callVars, workerVars, outbox>>

\* the auto-sync button (App.tsx:631, App.tsx:267)
ToggleAutoSync ==
  /\ ~effectPending
  /\ isAutoSyncEnabled' = ~isAutoSyncEnabled
  /\ intervalOn' = IntervalRegistered(
                     IsAnalyzingProp(variant, ~isAutoSyncEnabled, manualOverrideActive), stream)
  /\ UNCHANGED <<fenVars, inferVars, variant, timerCleared, samplesCleared, currentFen, boardOrientation, lastVisionError,
                 activeCrop, lastOpponentMove, estimatedElo, eloStability,
                 opponentMoveAccuracy, manualOverrideActive, manualPauseTimer, gameRef,
                 visionInFlight, visionCooldown, cooldownTimer, visionCalls, effectPending,
                 stream, nCaptures, nDropped, resultVars, callVars, workerVars, outbox>>

\* a tick of the capture interval calls handleFrameCapture up to the await
\* (CameraFeed.tsx:64-97; App.tsx:404-412, App.tsx:66-73)
FrameCapture ==
  /\ ~effectPending
  /\ intervalOn
  /\ IF CaptureAllowed
     THEN /\ nCaptures < MaxCaptures
          /\ nCaptures' = nCaptures + 1
          /\ visionInFlight' = IF variant = "v36" THEN TRUE ELSE visionInFlight
          /\ visionCooldown' = IF variant = "v26" THEN TRUE ELSE visionCooldown
          /\ visionCalls' = Append(visionCalls,
                 [fen |-> currentFen, orient |-> boardOrientation, crop |-> activeCrop])
          /\ nDropped' = 0
     ELSE /\ nDropped' = IF nDropped < MaxDrops THEN nDropped + 1 ELSE nDropped
          /\ UNCHANGED <<nCaptures, visionInFlight, visionCooldown, visionCalls>>
  /\ UNCHANGED <<fenVars, inferVars, variant, timerCleared, samplesCleared, currentFen, boardOrientation, isAutoSyncEnabled, lastVisionError,
                 activeCrop, lastOpponentMove, estimatedElo, eloStability,
                 opponentMoveAccuracy, manualOverrideActive, manualPauseTimer, gameRef,
                 cooldownTimer, effectPending, stream, intervalOn,
                 resultVars, callVars, workerVars, outbox>>


(***************************************************************************)
(* Recognizer results (src/services/visionService.ts:139-211).             *)
(***************************************************************************)
\* the FEN of a recognizer result: forceValidFen fills in the counters
\* (visionService.ts:133-136)
Snapshot(p, t) == [pieces |-> p, turn |-> t, half |-> 0, full |-> 1]

\* the positions the recognizer reports in this model: the initial one, the
\* one after the first legal move with either side to move, one that no
\* single move reaches from the initial one, and one the rules engine rejects
SnapshotFens ==
  { Snapshot(<<1, NSq>>, "w"), Snapshot(<<2, NSq>>, "b"), Snapshot(<<2, NSq>>, "w"),
    Snapshot(<<2, NSq - 1>>, "b"), Snapshot(BadRows, "w") }

\* message of the exception thrown at visionService.ts:202
NeuralBlur == "Neural Blur: Incomplete Board Detected"

\* message set by the catch of handleFrameCapture (App.tsx:468)
SyncCollision == "Sync collision"

\* message of the exception of the rules engine for a position it rejects
InvalidFen == "Invalid FEN"

VisionResults ==
  {[error |-> NeuralBlur, fen |-> NoFen, bottomColor |-> "white", boundingBox |-> FALSE]}
  \cup {[error |-> "", fen |-> f, bottomColor |-> b, boundingBox |-> x] :
          f \in SnapshotFens, b \in {"white", "black"}, x \in {TRUE}}

(***************************************************************************)
(* forceValidFen and its caller (src/services/visionService.ts:115-137,    *)
(* 197-210).  A text is a sequence of one-character strings.               *)
(***************************************************************************)
\* characters that \s and trim() take for whitespace, as far as texts here have them
Whitespace == {" ", "\t"}

RECURSIVE TrimStart(_)
TrimStart(t) ==
  IF t # <<>> /\ Head(t) \in Whitespace THEN TrimStart(Tail(t)) ELSE t

RECURSIVE TrimEnd(_)
TrimEnd(t) ==
  IF t # <<>> /\ t[Len(t)] \in Whitespace THEN TrimEnd(SubSeq(t, 1, Len(t) - 1)) ELSE t

\* String.prototype.trim (visionService.ts:116, 119)
Trim(t) == TrimEnd(TrimStart(t))

\* t.split(/\s+/) from the piece cur on: every maximal run of whitespace
\* separates two pieces, and a piece may be empty at either end of the text
RECURSIVE SplitFrom(_, _)
SplitFrom(t, cur) ==
  IF t = <<>> THEN <<cur>>
  ELSE IF Head(t) \in Whitespace THEN <<cur>> \o SplitFrom(TrimStart(t), <<>>)
  ELSE SplitFrom(Tail(t), Append(cur, Head(t)))

\* String.prototype.split(/\s+/) (visionService.ts:119)
Split(t) == SplitFrom(t, <<>>)

\* (board.match(/c/g) || []).length (visionService.ts:123-124)
CountChar(t, c) == Cardinality({i \in 1..Len(t) : t[i] = c})

StartBoard ==
  <<"r", "n", "b", "q", "k", "b", "n", "r", "/", "p", "p", "p", "p", "p",
     "p", "p", "p", "/", "8", "/", "8", "/", "8", "/", "8", "/", "P", "P",
     "P", "P", "P", "P", "P", "P", "/", "R", "N", "B", "Q", "K", "B", "N",
     "R" >>

\* the defaults of the fields after the placement (visionService.ts:130-134)
DefaultField ==
  << StartBoard, <<"w">>, <<"K", "Q", "k", "q">>, <<"-">>, <<"0">>, <<"1">> >>

\* the fields joined by single spaces, as the template literal does
RECURSIVE JoinFields(_)
JoinFields(fields) ==
  IF Len(fields) = 0 THEN <<>>
  ELSE IF Len(fields) = 1 THEN fields[1]
  ELSE fields[1] \o <<" ">> \o JoinFields(Tail(fields))

\* "rnbqkbnr/pppppppp/8/8/8/8/PPPPPPPP/RNBQKBNR w KQkq - 0 1"
StartFen == JoinFields(DefaultField)

\* parts[i] with no default behind it
PartWithoutDefault(parts, i) ==
  IF i <= Len(parts) THEN parts[i] ELSE <<>>

\* parts[i] || default: an index past the end and an empty piece are both falsy
Part(parts, i) ==
  IF i <= Len(parts) /\ parts[i] # <<>> THEN parts[i] ELSE DefaultField[i]

\* the test of the kings with 'at least one' in the place of 'exactly one'
KingsPresent(board) ==
  CountChar(board, "K") >= 1 /\ CountChar(board, "k") >= 1

\* whiteKings === 1 && blackKings === 1 (visionService.ts:126)
KingsValid(board) ==
  CountChar(board, "K") = 1 /\ CountChar(board, "k") = 1

\* a result made of every piece of the text
EveryField(parts) == parts

\* the six fields of the result (visionService.ts:120, 130-136)
SixFields(parts) == [i \in 1..6 |-> Part(parts, i)]

\* forceValidFen (visionService.ts:115-137)
forceValidFen(t) ==
  IF t = <<>> \/ Len(Trim(t)) = 0 THEN StartFen
  ELSE LET parts == Split(Trim(t))
       IN  IF ~KingsValid(Part(parts, 1)) THEN StartFen
           ELSE JoinFields(SixFields(parts))

\* nothing returned yet
NoOutput == [done |-> FALSE, fen |-> <<>>, error |-> ""]

\* the shortest result.fen analyzeBoardVision passes on (visionService.ts:201)
MinFenLength == 15

\* message of the catch for an exception without one (visionService.ts:209)
SyncLatencyFault == "Sync Latency Fault"

\* forceValidFen is called on the text
CallForceValidFen ==
  /\ ~fenOut.done
  /\ fenOut' = [done |-> TRUE, fen |-> forceValidFen(raw), error |-> ""]
  /\ UNCHANGED <<given, raw, visionOut>>
  /\ UNCHANGED <<appVars, inferVars, resultVars, engineVars, lastCall, workerVars, inbox, outbox>>

\* analyzeBoardVision from the parsed response on (visionService.ts:197-210);
\* failed: the request or JSON.parse threw
CallAnalyzeBoardVision(failed) ==
  /\ ~visionOut.done
  /\ visionOut' =
       IF failed THEN [done |-> TRUE, fen |-> <<>>, error |-> SyncLatencyFault]
       ELSE IF raw = <<>> \/ Len(raw) < MinFenLength
       THEN [done |-> TRUE, fen |-> <<>>, error |-> NeuralBlur]
       ELSE [done |-> TRUE, fen |-> forceValidFen(raw), error |-> ""]
  /\ UNCHANGED <<given, raw, fenOut>>
  /\ UNCHANGED <<appVars, inferVars, resultVars, engineVars, lastCall, workerVars, inbox, outbox>>

(***************************************************************************)
(* Move inference and the estimator.                                       *)
(***************************************************************************)
\* the loop over the legal moves (App.tsx:436-446, App.tsx:53-58): the first
\* move after which the placement is newPieces
RECURSIVE FindMoveFrom(_, _, _)
FindMoveFrom(fen, newPieces, i) ==
  IF i > Len(Moves(fen)) THEN NoMove
  ELSE IF Pieces(ApplyMove(fen, Moves(fen)[i])) = newPieces THEN Moves(fen)[i]
  ELSE FindMoveFrom(fen, newPieces, i + 1)

\* the first legal move, whatever placement it leads to
FindFirstLegalMove(fen, newPieces) ==
  IF Len(Moves(fen)) > 0 THEN Moves(fen)[1] ELSE NoMove

FindMove(fen, newPieces) == FindMoveFrom(fen, newPieces, 1)

\* detectMove (App.tsx:46-61)
DetectMove(oldFen, newFen) ==
  IF ~Loadable(oldFen) THEN NoMove
  ELSE IF Pieces(oldFen) = Pieces(newFen) THEN NoMove
  ELSE FindMove(oldFen, Pieces(newFen))

\* new Chess(currentFen) of the inline inference throws (App.tsx:431)
InlineThrows(fen) == ~Loadable(fen)

\* nothing inferred yet
NoInference == [detect |-> FALSE, inline |-> FALSE, threw |-> FALSE,
                detected |-> NoMove, found |-> NoMove]

\* detectMove(inferOld, inferNew) is called (App.tsx:46-61)
CallDetectMove ==
  /\ ~inferOut.detect
  /\ inferOut' = [inferOut EXCEPT !.detect = TRUE,
                                  !.detected = DetectMove(inferOld, inferNew)]
  /\ UNCHANGED <<inferOld, inferNew, inferPlayed>>
  /\ UNCHANGED <<appVars, fenVars, resultVars, engineVars, lastCall, workerVars, inbox, outbox>>

\* the inline inference of 3.6 runs on currentFen = inferOld and
\* result.fen = inferNew, whose placements differ (App.tsx:430-446)
CallInlineInference ==
  /\ ~inferOut.inline
  /\ Pieces(inferNew) # Pieces(inferOld)
  /\ inferOut' = [inferOut EXCEPT
                    !.inline = TRUE,
                    !.threw = InlineThrows(inferOld),
                    !.found = IF InlineThrows(inferOld) THEN NoMove
                              ELSE FindMove(inferOld, Pieces(inferNew))]
  /\ UNCHANGED <<inferOld, inferNew, inferPlayed>>
  /\ UNCHANGED <<appVars, fenVars, resultVars, engineVars, lastCall, workerVars, inbox, outbox>>

\* wasOpponentTurn (App.tsx:432-434)
WasOpponentTurn(fen, orient) ==
  \/ fen.turn = "b" /\ orient = "white"
  \/ fen.turn = "w" /\ orient = "black"

RECURSIVE SumSeq(_)
SumSeq(q) == IF q = <<>> THEN 0 ELSE Head(q) + SumSeq(Tail(q))

\* the rating with Math.floor in the place of Math.round
EloOfTruncated(samples) ==
  BaseElo + ((EloScale * SumSeq(samples)) \div Len(samples))

\* Math.round(800 + avgAcc * 22) with avgAcc = sum / length (App.tsx:452-453)
EloOf(samples) ==
  BaseElo + ((2 * EloScale * SumSeq(samples) + Len(samples)) \div (2 * Len(samples)))

\* Math.min(100, length * 10) (App.tsx:454)
StabilityOf(samples) ==
  IF Len(samples) * StabilityStep < MaxStability
  THEN Len(samples) * StabilityStep ELSE MaxStability

\* isTopEngine (App.tsx:450)
IsTopEngine(pred, move) == pred.from = move.from /\ pred.to = move.to

\* the guard of the estimator without the test of wasOpponentTurn
RecordsSampleOfAnySide(wasOpp, move, pred) == move # NoMove /\ pred # NoMove

\* a sample is recorded (App.tsx:448)
RecordsSample(wasOpp, move, pred) == wasOpp /\ move # NoMove /\ pred # NoMove

RemoveAt(q, i) == [j \in 1..(Len(q) - 1) |-> IF j < i THEN q[j] ELSE q[j + 1]]

\* the cooldown timer started as the last statement of the try block
CooldownStartedAtEndOfTry(error, threw) == ~error /\ ~threw

\* the cooldown timer is started in the finally block: after the early
\* return of an error result and after the catch as well (App.tsx:110-114,
\* App.tsx:808-812)
CooldownStarted(error, threw) == TRUE

\* the in-flight guard released as the last statement of the try block
InFlightReleasedAtEndOfTry(error, threw) == ~error /\ ~threw

\* the in-flight guard is released in the finally block (App.tsx:469-472)
InFlightReleased(error, threw) == TRUE

\* the handler without the test of result.error
ErrorIgnored(r) == FALSE

\* if (result.error) (App.tsx:414, App.tsx:75)
HasError(r) == r.error # ""


(***************************************************************************)
(* handleFrameCapture after the await (App.tsx:412-472, App.tsx:73-114):   *)
(* the recognizer call i resolves with result r.  c is the closure of the  *)
(* call: the state the handler was created with.                           *)
(***************************************************************************)
VisionResolve(i, r) ==
  /\ ~effectPending
  /\ i \in 1..Len(visionCalls)
  /\ LET c       == visionCalls[i]
         ok      == ~HasError(r)
         changed == ok /\ Pieces(r.fen) # Pieces(c.fen)
         \* 3.6 builds new Chess(currentFen) outside any inner try (App.tsx:431)
         reaches == changed /\ (variant = "v26" \/ ~InlineThrows(c.fen))
         move    == IF variant = "v36" THEN FindMove(c.fen, Pieces(r.fen))
                                       ELSE DetectMove(c.fen, r.fen)
         sample  == /\ variant = "v36"
                    /\ reaches
                    /\ RecordsSample(WasOpponentTurn(c.fen, c.orient), move,
                                     previousEngineBestMove)
         samples == IF sample
                    THEN Append(opponentMoveAccuracy,
                                IF IsTopEngine(previousEngineBestMove, move)
                                THEN MatchScore ELSE 0)
                    ELSE opponentMoveAccuracy
         loads   == Loadable(r.fen)
         nowOurs == IsUserTurn(r.fen, r.bottomColor)
         newFen  == IF reaches THEN r.fen ELSE currentFen
         newOrient == IF ok /\ r.bottomColor # c.orient THEN r.bottomColor
                                                        ELSE boardOrientation
         \* an exception ends the try block in the catch
         threw   == (changed /\ ~reaches) \/ (reaches /\ ~loads)
     IN  /\ lastVisionError' =
              CASE ~ok -> r.error
                [] changed /\ ~reaches -> SyncCollision
                [] reaches /\ ~loads -> (IF variant = "v36" THEN SyncCollision ELSE InvalidFen)
                [] OTHER -> ""
         /\ boardOrientation' = newOrient
         /\ activeCrop' = IF variant = "v36" /\ ok /\ r.boundingBox /\ ~c.crop
                          THEN TRUE ELSE activeCrop
         /\ opponentMoveAccuracy' = samples
         /\ estimatedElo' = IF sample THEN EloOf(samples) ELSE estimatedElo
         /\ eloStability' = IF sample THEN StabilityOf(samples) ELSE eloStability
         /\ currentFen' = newFen
         /\ gameRef' = IF reaches /\ loads THEN r.fen ELSE gameRef
         /\ lastOpponentMove' =
              IF variant = "v36"
              THEN (IF reaches /\ loads /\ nowOurs /\ move # NoMove
                    THEN move ELSE lastOpponentMove)
              ELSE (IF reaches
                    THEN (IF move # NoMove /\ nowOurs THEN move ELSE NoMove)
                    ELSE lastOpponentMove)
         /\ effectPending' = DepsChanged(newFen, newOrient)
         /\ visionInFlight' = IF variant = "v36" /\ InFlightReleased(~ok, threw)
                               THEN FALSE ELSE visionInFlight
         /\ cooldownTimer' = IF variant = "v26" /\ CooldownStarted(~ok, threw)
                              THEN cooldownTimer + 1 ELSE cooldownTimer
  /\ visionCalls' = RemoveAt(visionCalls, i)
  /\ nDropped' = 0
  /\ UNCHANGED <<fenVars, inferVars, variant, timerCleared, samplesCleared, isAutoSyncEnabled, manualOverrideActive, manualPauseTimer,
                 visionCooldown, stream, intervalOn, nCaptures,
                 resultVars, callVars, workerVars, outbox>>

\* the cooldown timer set in the finally block fires (App.tsx:113)
CooldownTimeout ==
  /\ ~effectPending
  /\ cooldownTimer > 0
  /\ cooldownTimer' = cooldownTimer - 1
  /\ visionCooldown' = FALSE
  /\ UNCHANGED <<fenVars, inferVars, variant, timerCleared, samplesCleared, currentFen, boardOrientation, isAutoSyncEnabled, lastVisionError,
                 activeCrop, lastOpponentMove, estimatedElo, eloStability,
                 opponentMoveAccuracy, manualOverrideActive, manualPauseTimer, gameRef,
                 visionInFlight, visionCalls, effectPending, stream, intervalOn, nCaptures, nDropped,
                 resultVars, callVars, workerVars, outbox>>

\* pairs of squares a user clicks one after the other: neighbours on the
\* strip, whether or not a piece of the side to move stands on the first
ClickedPair(from, to) == Abs(SquareIndex(from) - SquareIndex(to)) = 1

\* setTimeout without the clearTimeout before it
RestartTimerWithoutClear(pending) == pending + 1

\* clearTimeout of the timer the ref names, then setTimeout (App.tsx:498-499)
RestartTimer(pending) == (IF pending > 0 THEN pending - 1 ELSE 0) + 1

\* handleManualMove (App.tsx:491-502, App.tsx:136-144)
handleManualMove(from, to) ==
  /\ ~effectPending
  /\ IF [from |-> from, to |-> to] \in MoveSet(gameRef)
     THEN LET newFen == ApplyMove(gameRef, [from |-> from, to |-> to])
          IN  /\ gameRef.half < MaxHalf
              /\ nAnalyze < MaxAnalyze
              /\ gameRef' = newFen
              /\ currentFen' = newFen
              /\ lastOpponentMove' = NoMove
              /\ manualOverrideActive' = IF variant = "v36" THEN TRUE ELSE manualOverrideActive
              /\ manualPauseTimer' = IF variant = "v36" THEN RestartTimer(manualPauseTimer)
                                                        ELSE manualPauseTimer
              /\ timerCleared' = (variant = "v36" /\ manualPauseTimer > 0)
              /\ intervalOn' = IntervalRegistered(
                     IsAnalyzingProp(variant, isAutoSyncEnabled, manualOverrideActive'), stream)
              /\ IF DepsChanged(newFen, boardOrientation)
                 THEN /\ AnalysisEffect(newFen, boardOrientation)
                      /\ engineResult' = IF EffectClearsResult(newFen, boardOrientation)
                                         THEN NoResult ELSE engineResult
                 ELSE UNCHANGED <<engineResult, isEngineThinking, callVars>>
     ELSE UNCHANGED <<gameRef, currentFen, lastOpponentMove, manualOverrideActive,
                     manualPauseTimer, timerCleared, intervalOn, engineResult,
                     isEngineThinking, callVars>>
  /\ UNCHANGED <<fenVars, inferVars, variant, samplesCleared, boardOrientation, isAutoSyncEnabled,
                 lastVisionError, activeCrop,
                 estimatedElo, eloStability, opponentMoveAccuracy, visionInFlight,
                 visionCooldown, cooldownTimer, visionCalls, effectPending, stream,
                 nCaptures, nDropped, previousEngineBestMove, workerVars, outbox>>

\* the timeout of the override window fires (App.tsx:499)
OverrideTimeout ==
  /\ ~effectPending
  /\ manualPauseTimer > 0
  /\ manualPauseTimer' = manualPauseTimer - 1
  /\ manualOverrideActive' = FALSE
  /\ intervalOn' = IntervalRegistered(
                     IsAnalyzingProp(variant, isAutoSyncEnabled, FALSE), stream)
  /\ UNCHANGED <<fenVars, inferVars, variant, timerCleared, samplesCleared, currentFen, boardOrientation, isAutoSyncEnabled, lastVisionError,
                 activeCrop, lastOpponentMove, estimatedElo, eloStability,
                 opponentMoveAccuracy, gameRef, visionInFlight, visionCooldown,
                 cooldownTimer, visionCalls, effectPending, stream, nCaptures, nDropped,
                 resultVars, callVars, workerVars, outbox>>

\* the reset of the estimator without the assignment to the ref of the samples
ResetEstimatorKeepingSamples(samples) ==
  [elo |-> BaseElo, stability |-> 0, samples |-> samples]

\* the estimator as handleReset leaves it (App.tsx:512-514)
ResetEstimator(samples) ==
  [elo |-> BaseElo, stability |-> 0, samples |-> <<>>]

\* handleReset (App.tsx:504-515, App.tsx:146-153)
handleReset ==
  /\ ~effectPending
  /\ gameRef' = INITIAL_FEN
  /\ currentFen' = INITIAL_FEN
  /\ lastOpponentMove' = NoMove
  /\ IF variant = "v36"
     THEN /\ activeCrop' = FALSE
          /\ manualOverrideActive' = FALSE
          /\ estimatedElo' = ResetEstimator(opponentMoveAccuracy).elo
          /\ eloStability' = ResetEstimator(opponentMoveAccuracy).stability
          /\ opponentMoveAccuracy' = ResetEstimator(opponentMoveAccuracy).samples
          /\ UNCHANGED lastVisionError
     ELSE /\ lastVisionError' = ""
          /\ UNCHANGED <<activeCrop, manualOverrideActive, estimatedElo, eloStability,
                         opponentMoveAccuracy>>
  /\ intervalOn' = IntervalRegistered(
                     IsAnalyzingProp(variant, isAutoSyncEnabled, manualOverrideActive'), stream)
  /\ engineResult' = NoResult
  /\ IF DepsChanged(INITIAL_FEN, boardOrientation)
     THEN /\ nAnalyze < MaxAnalyze
          /\ AnalysisEffect(INITIAL_FEN, boardOrientation)
     ELSE UNCHANGED <<isEngineThinking, callVars>>
  /\ samplesCleared' = (opponentMoveAccuracy # <<>> /\ engineResult # NoResult)
  /\ UNCHANGED <<fenVars, inferVars, variant, timerCleared, boardOrientation, isAutoSyncEnabled, manualPauseTimer,
                 visionInFlight, visionCooldown, cooldownTimer, visionCalls, effectPending,
                 stream, nCaptures, nDropped, previousEngineBestMove, workerVars, outbox>>

(***************************************************************************)
(* The program.                                                            *)
(***************************************************************************)
\* the messages init() posts (engineService.ts:51-56)
InitMessages ==
  << Msg("uci", NoFen), Msg("isready", NoFen), Msg("setoption", NoFen),
     Msg("setoption", NoFen), Msg("setoption", NoFen), Msg("setoption", NoFen) >>

\* no text of the recognizer is followed
NoFenCall ==
  /\ given = <<>>
  /\ raw = <<>>
  /\ fenOut = NoOutput
  /\ visionOut = NoOutput

\* no pair of positions is followed
NoInferCall ==
  /\ inferOld = NoFen
  /\ inferNew = NoFen
  /\ inferPlayed = <<>>
  /\ inferOut = NoInference

\* the App and the engine after construction, less the count of searches
InitApp ==
  /\ variant \in {"v26", "v36"}
  /\ currentFen = INITIAL_FEN
  /\ boardOrientation = "white"
  /\ isAutoSyncEnabled = TRUE
  /\ lastVisionError = ""
  /\ activeCrop = FALSE
  /\ lastOpponentMove = NoMove
  /\ estimatedElo = BaseElo
  /\ eloStability = 0
  /\ opponentMoveAccuracy = <<>>
  /\ manualOverrideActive = FALSE
  /\ manualPauseTimer = 0
  /\ timerCleared = FALSE
  /\ samplesCleared = FALSE
  /\ gameRef = INITIAL_FEN
  /\ visionInFlight = FALSE
  /\ visionCooldown = FALSE
  /\ cooldownTimer = 0
  /\ visionCalls = <<>>
  /\ effectPending = TRUE
  /\ stream = FALSE
  /\ intervalOn = FALSE
  /\ engineResult = NoResult
  /\ isEngineThinking = FALSE
  /\ previousEngineBestMove = NoMove
  /\ activeFen = NoFen
  /\ currentMoves = [r \in Ranks |-> NoEngineMove]
  /\ lastDepth = 0
  /\ onResultCallback = NoCallback
  /\ inbox = InitMessages
  /\ wPos = NoFen
  /\ wSearching = FALSE
  /\ wDepth = FirstDepth
  /\ wRank = 1
  /\ outbox = <<>>
  /\ published = NoResult
  /\ lastCall = NoCallback
  /\ sinceStop = <<>>
  /\ nCaptures = 0
  /\ nDropped = 0

\* the state after construction, less the count of searches
InitState == InitApp /\ NoFenCall /\ NoInferCall

Init == InitState /\ nAnalyze = 0

Next ==
  \/ RunEffect
  \/ startCapture
  \/ ToggleAutoSync
  \/ FrameCapture
  \/ \E i \in 1..Len(visionCalls), r \in VisionResults : VisionResolve(i, r)
  \/ CooldownTimeout
  \/ \E from \in Squares, to \in Squares :
       ClickedPair(from, to) /\ handleManualMove(from, to)
  \/ OverrideTimeout
  \/ handleReset
  \/ ParseInfoLine
  \/ WorkerReceive
  \/ WorkerEmit

Spec == Init /\ [][Next]_vars

(***************************************************************************)
(* The App while the engine worker is silent.  What the worker posts       *)
(* reaches the App through the result callback alone, which writes         *)
(* engineResult, isEngineThinking and previousEngineBestMove; the capture  *)
(* interval, the guards of handleFrameCapture and the override window read *)
(* none of them.                                                           *)
(***************************************************************************)
NextApp ==
  \/ RunEffect
  \/ startCapture
  \/ ToggleAutoSync
  \/ FrameCapture
  \/ \E i \in 1..Len(visionCalls), r \in VisionResults : VisionResolve(i, r)
  \/ CooldownTimeout
  \/ \E from \in Squares, to \in Squares :
       ClickedPair(from, to) /\ handleManualMove(from, to)
  \/ OverrideTimeout
  \/ handleReset

SpecApp == Init /\ [][NextApp]_vars

(***************************************************************************)
(* The engine service on its own: a client that calls analyze() and stop() *)
(* in any order, with any of two callbacks, as the class permits.          *)
(***************************************************************************)
\* positions the client asks about
ClientFens == {INITIAL_FEN, [pieces |-> <<2, NSq>>, turn |-> "w", half |-> 0, full |-> 1]}

\* identities of the callbacks the client passes
ClientCallbacks == {1, 2}

\* engine.analyze(f, cb): cb tests the tag against f, as the App's callbacks do
ClientAnalyze(f, id) ==
  /\ AlreadyAnalyzing(f) \/ nAnalyze < MaxAnalyze
  /\ Analyze(f, [fen |-> f, id |-> id])
  /\ UNCHANGED <<uiVars, resultVars, workerVars, outbox>>

\* engine.stop(), explored while a position is active
ClientStop ==
  /\ activeFen # NoFen
  /\ Stop
  /\ UNCHANGED <<uiVars, resultVars, workerVars, outbox>>

NextEngine ==
  \/ \E f \in ClientFens, id \in ClientCallbacks : ClientAnalyze(f, id)
  \/ ClientStop
  \/ ParseInfoLine
  \/ WorkerReceive
  \/ WorkerEmit

SpecEngine == Init /\ [][NextEngine]_vars

(***************************************************************************)
(* forceValidFen and analyzeBoardVision on their own.  The recognizer's    *)
(* text is written from up to MaxFields fields: a placement with one king  *)
(* a side, with a king missing or doubled, or without kings, then fields   *)
(* that are or are not the defaults, then one field too many; the fields   *)
(* are separated by single or mixed whitespace, and the text may begin and *)
(* end with whitespace.  A text of no field is empty or blank.             *)
(***************************************************************************)
BoardPool ==
  { <<"K", "/", "k">>, <<"k", "p", "K">>, <<"K">>, <<"p", "/", "p">>,
    <<"K", "K", "k">>, <<"K", "k", "/", "k">> }

\* what the text carries as its field i
FieldPool(i) ==
  CASE i = 1 -> BoardPool
    [] i = 2 -> { <<"w">>, <<"b">> }
    [] i = 3 -> { <<"K", "Q", "k", "q">>, <<"-">> }
    [] i = 4 -> { <<"-">>, <<"e", "3">> }
    [] i = 5 -> { <<"0">>, <<"7">> }
    [] i = 6 -> { <<"1">>, <<"4", "2">> }
    [] OTHER -> { <<"x">>, <<"K", "k">> }

\* the sequences of fields i..n
RECURSIVE FieldSeqs(_, _)
FieldSeqs(i, n) ==
  IF i > n THEN {<<>>}
  ELSE {<<f>> \o rest : f \in FieldPool(i), rest \in FieldSeqs(i + 1, n)}

Separators == { <<" ">>, <<"\t", " ">> }

LeadingMargins == { <<>>, <<" ">>, <<"\t", " ">> }

TrailingMargins == { <<>>, <<" ">> }

RECURSIVE JoinWith(_, _)
JoinWith(fields, sep) ==
  IF Len(fields) = 0 THEN <<>>
  ELSE IF Len(fields) = 1 THEN fields[1]
  ELSE fields[1] \o sep \o JoinWith(Tail(fields), sep)

InitFen ==
  /\ InitApp
  /\ variant = "v36"
  /\ nAnalyze = 0
  /\ given \in UNION {FieldSeqs(1, n) : n \in 0..MaxFields}
  /\ raw \in {lead \o JoinWith(given, sep) \o trail :
                lead \in LeadingMargins, sep \in Separators, trail \in TrailingMargins}
  /\ fenOut = NoOutput
  /\ visionOut = NoOutput
  /\ NoInferCall

NextFen ==
  \/ CallForceValidFen
  \/ \E failed \in BOOLEAN : CallAnalyzeBoardVision(failed)

SpecFen == InitFen /\ [][NextFen]_vars

(***************************************************************************)
(* Move inference on its own: detectMove of 2.6 and the inline loop of 3.6 *)
(* on a pair of positions.  The previous position is any position the     *)
(* rules engine loads, the empty string, or a text it rejects; the new one *)
(* is the previous one after one legal move or after two, the recognizer's *)
(* snapshot of the placement after one legal move with either side to      *)
(* move, any other snapshot, or the empty string.                          *)
(***************************************************************************)
\* positions the rules engine loads
InferPositions ==
  {[pieces |-> p, turn |-> t, half |-> 0, full |-> 1] : p \in ValidPieces, t \in {"w", "b"}}

\* previous positions
InferOldFens == InferPositions \cup {NoFen, Snapshot(BadRows, "w")}

\* new positions reached from old by the moves in played, and new
\* positions of which nothing is known (played = <<>>)
InferPairs(old) ==
  LET ms == IF Loadable(old) THEN MoveSet(old) ELSE {}
  IN  {<<ApplyMove(old, a), <<a>>>> : a \in ms}
      \cup {<<Snapshot(Pieces(ApplyMove(old, a)), t), <<a>>>> : a \in ms, t \in {"w", "b"}}
      \cup UNION {{<<ApplyMove(ApplyMove(old, a), b), <<a, b>>>> :
                     b \in MoveSet(ApplyMove(old, a))} : a \in ms}
      \cup {<<Snapshot(p, t), <<>>>> : p \in ValidPieces \cup {BadRows}, t \in {"w"}}
      \cup {<<NoFen, <<>>>>}

InitInfer ==
  /\ InitApp
  /\ NoFenCall
  /\ variant = "v36"
  /\ nAnalyze = 0
  /\ inferOld \in InferOldFens
  /\ \E pair \in InferPairs(inferOld) : inferNew = pair[1] /\ inferPlayed = pair[2]
  /\ inferOut = NoInference

NextInfer ==
  \/ CallDetectMove
  \/ CallInlineInference

SpecInfer == InitInfer /\ [][NextInfer]_vars

(***************************************************************************)
(* A session of the App 3.6 from the moment the search of the starting     *)
(* position has run to its last depth: the result callback has stored the  *)
(* last result and the first move of its best line, and the worker is      *)
(* idle.  The worker stays silent afterwards, as in SpecApp, so the stored *)
(* prediction is the one the estimator reads for every later move.  One    *)
(* behaviour starts SessionSearches further searches.                      *)
(***************************************************************************)
\* the map after the search: one entry per rank the position has a move for
FirstSearchMoves ==
  [r \in Ranks |->
     IF r <= Len(Moves(INITIAL_FEN))
     THEN MakeEngineMove([depth |-> LastDepth, multipv |-> r,
                          pv |-> PvMove(INITIAL_FEN, r, LastDepth), src |-> INITIAL_FEN])
     ELSE NoEngineMove]

FirstSearchResult ==
  [some |-> TRUE, moves |-> SortedMoves(FirstSearchMoves),
   depth |-> LastDepth, fen |-> INITIAL_FEN]

SessionState ==
  /\ NoFenCall
  /\ NoInferCall
  /\ variant = "v36"
  /\ currentFen = INITIAL_FEN
  /\ boardOrientation = "white"
  /\ isAutoSyncEnabled = TRUE
  /\ lastVisionError = ""
  /\ activeCrop = FALSE
  /\ lastOpponentMove = NoMove
  /\ manualOverrideActive = FALSE
  /\ manualPauseTimer = 0
  /\ timerCleared = FALSE
  /\ samplesCleared = FALSE
  /\ gameRef = INITIAL_FEN
  /\ visionInFlight = FALSE
  /\ visionCooldown = FALSE
  /\ cooldownTimer = 0
  /\ visionCalls = <<>>
  /\ effectPending = FALSE
  /\ stream = FALSE
  /\ intervalOn = FALSE
  /\ engineResult = FirstSearchResult
  /\ isEngineThinking = FALSE
  /\ previousEngineBestMove =
       [from |-> ToLowerCase(FirstSearchResult.moves[1].from),
        to |-> ToLowerCase(FirstSearchResult.moves[1].to)]
  /\ activeFen = INITIAL_FEN
  /\ currentMoves = FirstSearchMoves
  /\ lastDepth = LastDepth
  /\ onResultCallback = [fen |-> INITIAL_FEN, id |-> 0]
  /\ inbox = <<>>
  /\ wPos = INITIAL_FEN
  /\ wSearching = FALSE
  /\ wDepth = LastDepth + 1
  /\ wRank = 1
  /\ outbox = <<>>
  /\ published = FirstSearchResult
  /\ lastCall = [fen |-> INITIAL_FEN, id |-> 0]
  /\ sinceStop = <<"position", "go">>
  /\ nDropped = 0

InitSession ==
  /\ SessionState
  /\ estimatedElo = BaseElo
  /\ eloStability = 0
  /\ opponentMoveAccuracy = <<>>
  /\ nCaptures = 0
  /\ nAnalyze = MaxAnalyze - SessionSearches

NextSession ==
  \/ RunEffect
  \/ startCapture
  \/ FrameCapture
  \/ \E i \in 1..Len(visionCalls), r \in VisionResults : VisionResolve(i, r)
  \/ \E from \in Squares, to \in Squares :
       ClickedPair(from, to) /\ handleManualMove(from, to)
  \/ OverrideTimeout
  \/ handleReset

SpecSession == InitSession /\ [][NextSession]_vars

(***************************************************************************)
(* The estimator of the App 3.6 over a longer session: frames, recognizer  *)
(* results and resets, with no local move.  The session stands at the      *)
(* starting position with its search finished, as in SpecSession, and has  *)
(* recorded no sample yet or PriorCount samples, all matches or none, for  *)
(* which rating and stability are what the last update left.  One          *)
(* behaviour starts EstimatorCaptures recognizer calls.                    *)
(***************************************************************************)
PriorSamples ==
  {<<>>} \cup {[i \in 1..PriorCount |-> IF i <= k THEN MatchScore ELSE 0] :
                k \in {0, PriorCount}}

InitEstimator ==
  /\ SessionState
  /\ opponentMoveAccuracy \in PriorSamples
  /\ estimatedElo = IF opponentMoveAccuracy = <<>> THEN BaseElo
                                                   ELSE EloOf(opponentMoveAccuracy)
  /\ eloStability = IF opponentMoveAccuracy = <<>> THEN 0
                                                   ELSE StabilityOf(opponentMoveAccuracy)
  /\ nCaptures = MaxCaptures - EstimatorCaptures
  /\ nAnalyze = MaxAnalyze - SessionSearches

NextEstimator ==
  \/ RunEffect
  \/ startCapture
  \/ FrameCapture
  \/ \E i \in 1..Len(visionCalls), r \in VisionResults : VisionResolve(i, r)
  \/ handleReset

SpecEstimator == InitEstimator /\ [][NextEstimator]_vars

(***************************************************************************)
(* The App 3.6 with its timers scheduled.  A callback passed to setTimeout *)
(* is run by the event loop once its delay has passed (App.tsx:499), and a *)
(* pending passive effect is run after the commit that scheduled it        *)
(* (App.tsx:475-489); clicks, capture ticks and recognizer results may or  *)
(* may not come.  Auto-sync stays on, as it is after construction.  The    *)
(* count of searches starts below zero, so that one behaviour starts       *)
(* OverrideSearches searches: those of a local move, a reset and a second  *)
(* local move among them.  A recognizer result is taken while the effect   *)
(* of its commit can still run.                                            *)
(***************************************************************************)
InitOverride ==
  /\ InitState
  /\ variant = "v36"
  /\ nAnalyze = MaxAnalyze - OverrideSearches

NextOverride ==
  \/ RunEffect
  \/ startCapture
  \/ FrameCapture
  \/ \E i \in 1..Len(visionCalls), r \in VisionResults :
       VisionResolve(i, r) /\ (effectPending' => nAnalyze < MaxAnalyze)
  \/ \E from \in Squares, to \in Squares :
       ClickedPair(from, to) /\ handleManualMove(from, to)
  \/ OverrideTimeout
  \/ handleReset

SpecOverride ==
  /\ InitOverride
  /\ [][NextOverride]_vars
  /\ WF_vars(OverrideTimeout)
  /\ WF_vars(RunEffect)

(***************************************************************************)
(* The App 2.6 with its cooldown timer scheduled: the callback passed to   *)
(* setTimeout in the finally block of handleFrameCapture is run by the     *)
(* event loop once its delay has passed (App.tsx:113), and a pending       *)
(* passive effect is run after its commit (App.tsx:120-134).  Whether a    *)
(* recognizer call ever resolves is left open.  The capture loop of 2.7    *)
(* (App.tsx:765-813) has the same guard, the same flag and the same        *)
(* finally block.  A recognizer result is taken while the effect of its    *)
(* commit can still run.                                                   *)
(***************************************************************************)
InitCooldown ==
  /\ Init
  /\ variant = "v26"

NextCooldown ==
  \/ RunEffect
  \/ startCapture
  \/ ToggleAutoSync
  \/ FrameCapture
  \/ \E i \in 1..Len(visionCalls), r \in VisionResults :
       VisionResolve(i, r) /\ (effectPending' => nAnalyze < MaxAnalyze)
  \/ CooldownTimeout
  \/ \E from \in Squares, to \in Squares :
       ClickedPair(from, to) /\ handleManualMove(from, to)
  \/ handleReset

SpecCooldown ==
  InitCooldown /\ [][NextCooldown]_vars /\ WF_vars(CooldownTimeout) /\ WF_vars(RunEffect)

(***************************************************************************)
(* The App 3.6 with an engine that keeps answering: the worker handles the *)
(* messages posted to it and posts the lines of a running search, and the  *)
(* event loop delivers them to worker.onmessage (engineService.ts:42-49)   *)
(* and runs a pending passive effect (App.tsx:475-489).  Clicks, capture   *)
(* ticks, recognizer results and the override timer may or may not come.   *)
(* A recognizer result is taken while the effect of its commit can still   *)
(* run.  WorkerReceive is enabled exactly while inbox is not empty and     *)
(* empties it, so its weak fairness is the same as inbox being empty again *)
(* and again, and is written that way.                                     *)
(***************************************************************************)
InitAnalysis ==
  /\ Init
  /\ variant = "v36"

NextAnalysis ==
  \/ RunEffect
  \/ startCapture
  \/ FrameCapture
  \/ \E i \in 1..Len(visionCalls), r \in VisionResults :
       VisionResolve(i, r) /\ (effectPending' => nAnalyze < MaxAnalyze)
  \/ \E from \in Squares, to \in Squares :
       ClickedPair(from, to) /\ handleManualMove(from, to)
  \/ OverrideTimeout
  \/ handleReset
  \/ ParseInfoLine
  \/ WorkerReceive
  \/ WorkerEmit

SpecAnalysis ==
  /\ InitAnalysis
  /\ [][NextAnalysis]_vars
  /\ WF_vars(RunEffect)
  /\ []<>(inbox = <<>>)
  /\ WF_vars(WorkerEmit)
  /\ WF_vars(ParseInfoLine)

(***************************************************************************)
(* Properties.                                                             *)
(***************************************************************************)
\* the line a result lists for rank r
LineAt(res, r) ==
  IF \E i \in 1..Len(res.moves) : res.moves[i].rank = r
  THEN res.moves[CHOOSE i \in 1..Len(res.moves) : res.moves[i].rank = r]
  ELSE NoEngineMove

\* C1: every candidate line of the result the App stores was computed by the
\* engine for the position the result is tagged with; no line computed for an
\* earlier position P1 is stored after analyze(P2) has run.
C1_NoLineOfEarlierPosition ==
  engineResult.some =>
    \A i \in 1..Len(engineResult.moves) : engineResult.moves[i].src = engineResult.fen

\* C2: in every reachable state a non-null engineResult is tagged with the
\* current authoritative position currentFen.
C2_ResultIsForCurrentPosition ==
  engineResult.some => engineResult.fen = currentFen

\* C3: a recognizer call that resolves while the override window of a
\* successful local move is open neither replaces the position nor records an
\* estimator sample.
C3_LocalMoveTakesPrecedence ==
  [][(Len(visionCalls') < Len(visionCalls) /\ manualOverrideActive)
       => (currentFen' = currentFen /\ opponentMoveAccuracy' = opponentMoveAccuracy)]_vars

\* C4: at most one recognizer call with its state update is in progress at any
\* time, and while one is in progress its guard flag is set; a capture tick
\* that arrives meanwhile starts no recognizer call and leaves nothing behind
\* that would start one later: a call starts only in the step of a tick that
\* finds none in progress.
C4_OneReconciliationAtATime ==
  /\ [](/\ Len(visionCalls) <= 1
        /\ (Len(visionCalls) = 1 =>
              IF variant = "v36" THEN visionInFlight ELSE visionCooldown))
  /\ [][/\ (Len(visionCalls) > 0 =>
              (nCaptures' = nCaptures /\ Len(visionCalls') <= Len(visionCalls)))
        /\ (nDropped' > nDropped => visionCalls' = visionCalls)
        /\ (Len(visionCalls') > Len(visionCalls) => nCaptures' = nCaptures + 1)]_vars

\* a capture tick was dropped while a recognizer call is in progress (3.6)
C4_Witness ==
  variant = "v36" /\ visionInFlight /\ Len(visionCalls) = 1 /\ nDropped > 0

\* the messages in msgs keep the order 'stop', 'position', 'go' when the
\* worker has handled the messages of since after its last 'stop'
RECURSIVE StopFirst(_, _)
StopFirst(since, msgs) ==
  IF msgs = <<>> THEN TRUE
  ELSE LET c == Head(msgs).cmd
       IN  CASE c = "stop" -> StopFirst(<<>>, Tail(msgs))
             [] c = "position" -> since = <<>> /\ StopFirst(<<"position">>, Tail(msgs))
             [] c = "go" -> since = <<"position">>
                            /\ StopFirst(<<"position", "go">>, Tail(msgs))
             [] OTHER -> StopFirst(since, Tail(msgs))

\* C5: of the messages the worker has handled and those posted to it, every
\* 'position' follows a 'stop' with no 'position' or 'go' in between and every
\* 'go' follows that 'position': the worker never gets two 'go' messages
\* without a 'stop' between them.
C5_StopBeforePositionAndGo ==
  /\ sinceStop \in {<<>>, <<"position">>, <<"position", "go">>}
  /\ StopFirst(sinceStop, inbox)

\* the worker runs the second search of the behaviour
C5_Witness ==
  /\ nAnalyze = 2
  /\ inbox = <<>>
  /\ sinceStop = <<"position", "go">>
  /\ wSearching
  /\ wPos = activeFen

\* C6: when a result is handed to the callback, then if its tag differs from
\* the position the callback was registered for, engineResult,
\* isEngineThinking and previousEngineBestMove are unchanged, and otherwise
\* engineResult becomes that result and isEngineThinking becomes false.
C6_StaleUpdateHasNoEffect ==
  [][(Len(outbox') < Len(outbox) /\ published' # published)
       => IF published'.fen = onResultCallback.fen
          THEN engineResult' = published' /\ isEngineThinking' = FALSE
          ELSE UNCHANGED resultVars]_vars

\* a result tagged '' was handed to the callback registered for a position
\* and was dropped (2.6, after stop())
C6_Witness ==
  /\ published.some
  /\ published.fen # onResultCallback.fen
  /\ engineResult # published

C8_DepthNeverDecreases ==
  [][(published.some /\ published'.some /\ published'.fen = published.fen)
       => \A r \in Ranks :
            (LineAt(published, r) # NoEngineMove /\ LineAt(published', r) # NoEngineMove)
              => LineAt(published', r).d >= LineAt(published, r).d]_vars

\* C9: a call analyze(fen, cb) with fen the active position posts no message
\* and leaves the rank map, the registered callback and the active position
\* as they are.
C9_AnalyzeSamePositionIsNoOp ==
  [][(lastCall' # lastCall /\ lastCall'.fen = activeFen)
       => UNCHANGED <<inbox, currentMoves, onResultCallback, activeFen, lastDepth>>]_vars

\* analyze() was called for the active position with another callback while
\* the map held a line
C9_Witness ==
  /\ activeFen # NoFen
  /\ lastCall.fen = activeFen
  /\ lastCall # onResultCallback
  /\ currentMoves[1] # NoEngineMove

\* C10: while manualOverrideActive is true the capture interval is not
\* registered, and no step that starts a recognizer call is taken.
C10_NoCaptureDuringOverride ==
  /\ [](manualOverrideActive => ~intervalOn)
  /\ [][manualOverrideActive => nCaptures' = nCaptures]_vars

\* the override window is open with a stream and auto-sync on
C10_Witness ==
  manualOverrideActive /\ stream /\ isAutoSyncEnabled /\ ~intervalOn


\* a step of handleManualMove of 3.6 in which the rules engine accepted the
\* move: the half-move count of the position gameRef holds has grown, which
\* no snapshot and no reset makes it do
LocalMoveStep == variant = "v36" /\ gameRef'.half = gameRef.half + 1

\* C11: the override window restarts rather than stacks.  At most one expiry
\* timer is pending at any time; a successful local move leaves exactly one
\* pending timer and the window open, whether or not a timer was pending
\* before it; and an open window is eventually closed, which with no further
\* local move and no other user action is the work of the timer alone.
C11_OverrideWindowRestarts ==
  /\ [](manualPauseTimer <= 1)
  /\ [][LocalMoveStep => manualOverrideActive' /\ manualPauseTimer' = 1]_vars
  /\ [](manualOverrideActive => manualPauseTimer = 1)
  /\ (manualOverrideActive ~> ~manualOverrideActive)

\* a local move succeeded while a timer was pending, and the window is open
\* with one timer pending
C11_Witness ==
  /\ variant = "v36"
  /\ timerCleared
  /\ manualOverrideActive
  /\ manualPauseTimer = 1


\* the estimator is as construction leaves it
EstimatorInitial ==
  estimatedElo = BaseElo /\ eloStability = 0 /\ opponentMoveAccuracy = <<>>

\* C12: handleReset restores in one step the starting position, a null
\* analysis result, the rating 800, the stability 0 and the empty sample
\* list; no step takes the estimator back to its initial values without the
\* position and the result, and no step of 3.6 takes the result back to null
\* without the position and the estimator.
C12_ResetRestoresTogether ==
  [][ /\ handleReset =>
           /\ currentFen' = INITIAL_FEN
           /\ engineResult' = NoResult
           /\ EstimatorInitial'
      /\ (~EstimatorInitial /\ EstimatorInitial') =>
           (currentFen' = INITIAL_FEN /\ engineResult' = NoResult)
      /\ (variant = "v36" /\ engineResult # NoResult /\ engineResult' = NoResult) =>
           (currentFen' = INITIAL_FEN /\ EstimatorInitial')
    ]_vars

\* the last reset found samples and a result, and position, result and
\* estimator are the initial ones
C12_Witness ==
  /\ variant = "v36"
  /\ samplesCleared
  /\ currentFen = INITIAL_FEN
  /\ engineResult = NoResult
  /\ EstimatorInitial


\* the recognizer result r shows a move of the opponent from the position the
\* handler of closure c was created with (App.tsx:430-446)
OpponentMoveDetected(c, r) ==
  /\ r.error = ""
  /\ Loadable(c.fen)
  /\ Pieces(r.fen) # Pieces(c.fen)
  /\ WasOpponentTurn(c.fen, c.orient)
  /\ FindMove(c.fen, Pieces(r.fen)) # NoMove

\* the search of fen is the running one and has handed no result to the
\* callback, and the stored result is not one for fen either
NoLineYet(fen) ==
  /\ activeFen = fen
  /\ published = NoResult
  /\ engineResult.fen # fen

\* C13: when handleFrameCapture detects a move of the opponent and the search
\* of the position the opponent moved from has not produced a line yet, the
\* sample is skipped: rating, stability and sample list stay as they are.
C13_SampleSkippedWithoutLine ==
  [][ \A i \in 1..Len(visionCalls), r \in VisionResults :
        ( /\ variant = "v36"
          /\ NoLineYet(visionCalls[i].fen)
          /\ OpponentMoveDetected(visionCalls[i], r)
          /\ VisionResolve(i, r) )
        => UNCHANGED <<estimatedElo, eloStability, opponentMoveAccuracy>>
    ]_vars


\* the side to move in fen is the side at the bottom of a board shown with
\* orientation orient
BottomSideToMove(fen, orient) ==
  \/ fen.turn = "w" /\ orient = "white"
  \/ fen.turn = "b" /\ orient = "black"

\* C14: rating, stability and sample list change only by a reset or by one
\* sample appended when a recognizer call resolves whose handler held a
\* position in which the side to move was not the side at the bottom, and
\* from which one move leads to the new placement; a successful local move
\* changes the placement of currentFen and leaves all three unchanged.
C14_SamplesOnlyForOpponentMoves ==
  [][ /\ (<<estimatedElo, eloStability, opponentMoveAccuracy>>' #
            <<estimatedElo, eloStability, opponentMoveAccuracy>>)
          => \/ EstimatorInitial'
             \/ /\ Len(opponentMoveAccuracy') = Len(opponentMoveAccuracy) + 1
                /\ \E i \in 1..Len(visionCalls) :
                     /\ visionCalls' = RemoveAt(visionCalls, i)
                     /\ ~BottomSideToMove(visionCalls[i].fen, visionCalls[i].orient)
                     /\ FindMove(visionCalls[i].fen, Pieces(currentFen')) # NoMove
      /\ LocalMoveStep
          => /\ Pieces(currentFen') # Pieces(currentFen)
             /\ UNCHANGED <<estimatedElo, eloStability, opponentMoveAccuracy>>
    ]_vars

\* samples were recorded, and the current position is the one a local move
\* made afterwards
C14_Witness ==
  /\ variant = "v36"
  /\ opponentMoveAccuracy # <<>>
  /\ currentFen.half = 1
  /\ currentFen = gameRef
  /\ manualOverrideActive


\* k is num / den rounded to the nearest integer, halves upwards
Rounded(k, num, den) ==
  (2 * k - 1) * den <= 2 * num /\ 2 * num < (2 * k + 1) * den

\* the matches among the samples
MatchCount(samples) == Cardinality({i \in 1..Len(samples) : samples[i] = 100})

\* C15: with n >= 1 samples in the list, m of them matches, the rating is
\* round(800 + 2200 m / n), between 800 and 3000, and the stability is
\* min(100, 10 n); a sample appended is a match exactly when the stored top
\* move of the engine and the move observed have the same origin and the
\* same destination.
C15_RatingIsRoundedMatchRate ==
  /\ [](opponentMoveAccuracy # <<>> =>
          LET n == Len(opponentMoveAccuracy)
              m == MatchCount(opponentMoveAccuracy)
          IN  /\ Rounded(estimatedElo, 800 * n + 2200 * m, n)
              /\ estimatedElo >= 800 /\ estimatedElo <= 3000
              /\ eloStability = (IF 10 * n < 100 THEN 10 * n ELSE 100))
  /\ [][ Len(opponentMoveAccuracy') = Len(opponentMoveAccuracy) + 1 =>
           \E i \in 1..Len(visionCalls) :
             /\ visionCalls' = RemoveAt(visionCalls, i)
             /\ LET seen == FindMove(visionCalls[i].fen, Pieces(currentFen'))
                    last == opponentMoveAccuracy'[Len(opponentMoveAccuracy')]
                IN  /\ last \in {0, 100}
                    /\ last = 100 <=> /\ previousEngineBestMove.from = seen.from
                                       /\ previousEngineBestMove.to = seen.to
        ]_vars

\* three samples of which two are matches, where rounding and truncation
\* differ
C15_Witness ==
  /\ Len(opponentMoveAccuracy) = 3
  /\ MatchCount(opponentMoveAccuracy) = 2
  /\ estimatedElo = 2267
  /\ eloStability = 30


\* the placement has exactly one K and exactly one k
OneKingEach(board) ==
  /\ Cardinality({i \in 1..Len(board) : board[i] = "K"}) = 1
  /\ Cardinality({i \in 1..Len(board) : board[i] = "k"}) = 1

\* the six fields the claims expect for the fields g of the text
ExpectedFields(g) ==
  << IF Len(g) >= 1 THEN g[1] ELSE StartBoard,
     IF Len(g) >= 2 THEN g[2] ELSE <<"w">>,
     IF Len(g) >= 3 THEN g[3] ELSE <<"K", "Q", "k", "q">>,
     IF Len(g) >= 4 THEN g[4] ELSE <<"-">>,
     IF Len(g) >= 5 THEN g[5] ELSE <<"0">>,
     IF Len(g) >= 6 THEN g[6] ELSE <<"1">> >>

\* C17: for a text of one to six fields whose placement has exactly one K
\* and one k, forceValidFen returns six fields: those of the text as they
\* are, then the defaults w, KQkq, -, 0, 1 for the missing ones; for a text
\* of the placement alone the placement of the result is that of the text.
C17_PresentFieldsKeptMissingDefaulted ==
  (fenOut.done /\ Len(given) \in 1..6 /\ OneKingEach(given[1])) =>
     /\ fenOut.fen = JoinWith(ExpectedFields(given), <<" ">>)
     /\ Len(given) = 1 =>
          fenOut.fen = given[1] \o <<" ", "w", " ", "K", "Q", "k", "q", " ", "-", " ", "0", " ", "1">>

\* a text of three fields with a black side to move and irregular
\* whitespace has been repaired
C17_Witness ==
  /\ fenOut.done
  /\ Len(given) = 3
  /\ OneKingEach(given[1])
  /\ given[2] = <<"b">>
  /\ raw # JoinWith(given, <<" ">>)
  /\ fenOut.fen = given[1] \o <<" ", "b", " ">> \o given[3] \o <<" ", "-", " ", "0", " ", "1">>

\* C18: for a text whose placement does not have exactly one K and exactly
\* one k, forceValidFen returns the starting position with its six fields,
\* whatever the other fields of the text are.
C18_BadKingsGiveStartPosition ==
  (fenOut.done /\ Len(given) >= 1 /\ ~OneKingEach(given[1])) =>
     fenOut.fen = StartBoard \o <<" ", "w", " ", "K", "Q", "k", "q", " ", "-", " ", "0", " ", "1">>

\* a text of six fields, none a default, with two white kings has been
\* replaced by the starting position
C18_Witness ==
  /\ fenOut.done
  /\ Len(given) = 6
  /\ given[1] = <<"K", "K", "k">>
  /\ given[2] = <<"b">>
  /\ given[5] = <<"7">>
  /\ fenOut.fen = StartFen

\* t is six fields with single spaces between them, the first with exactly
\* one king a side
WellFormedFen(t) ==
  LET spaces == {i \in 1..Len(t) : t[i] \in {" ", "\t"}}
  IN  /\ Cardinality(spaces) = 5
      /\ \A i \in spaces : /\ t[i] = " "
                            /\ i > 1 /\ i < Len(t)
                            /\ (i + 1) \notin spaces
      /\ OneKingEach(SubSeq(t, 1, (CHOOSE i \in spaces : \A j \in spaces : i <= j) - 1))

\* C19: forceValidFen returns for every text, the empty, the blank, the
\* over-long and the garbled included, six fields with exactly one king a
\* side, so a result of analyzeBoardVision without an error carries such a
\* position.
C19_AlwaysSixFieldsOneKingEach ==
  /\ fenOut.done => WellFormedFen(fenOut.fen)
  /\ (visionOut.done /\ visionOut.error = "") => WellFormedFen(visionOut.fen)

\* analyzeBoardVision has returned without an error for a text of more than
\* six fields, and forceValidFen has returned for it
C19_Witness ==
  /\ Len(given) > 6
  /\ fenOut.done
  /\ visionOut.done
  /\ visionOut.error = ""
  /\ WellFormedFen(visionOut.fen)


\* position, highlight and estimator are as they were before the step
SnapshotIgnored ==
  UNCHANGED <<currentFen, gameRef, lastOpponentMove, estimatedElo, eloStability,
              opponentMoveAccuracy>>

\* C20: a snapshot whose piece placement equals the placement of currentFen
\* changes neither the position nor the highlight and records no estimator
\* sample when its recognizer call resolves, whatever its side to move and
\* counters are.
C20_SamePlacementSnapshotIgnored ==
  [][ \A i \in 1..Len(visionCalls), r \in VisionResults :
        ( /\ r.error = ""
          /\ Pieces(r.fen) = Pieces(currentFen)
          /\ VisionResolve(i, r) )
        => SnapshotIgnored
    ]_vars

\* C21: for every position P the rules engine loads and every legal move m
\* from P, detectMove and the inline loop of 3.6 return the origin and the
\* destination of m for P and the position after m, whether the new position
\* is the rules engine's own or the recognizer's snapshot of its placement.
C21_InferenceReturnsTheMovePlayed ==
  /\ (inferOut.detect /\ Len(inferPlayed) = 1) =>
        /\ inferOut.detected.from = inferPlayed[1].from
        /\ inferOut.detected.to = inferPlayed[1].to
  /\ (inferOut.inline /\ Len(inferPlayed) = 1) =>
        /\ ~inferOut.threw
        /\ inferOut.found.from = inferPlayed[1].from
        /\ inferOut.found.to = inferPlayed[1].to

\* both inferences have returned the second legal move of a position with
\* two legal moves, from a snapshot whose side to move is the mover's
C21_Witness ==
  /\ inferOut.detect
  /\ inferOut.inline
  /\ Len(Moves(inferOld)) = 2
  /\ inferPlayed = <<Moves(inferOld)[2]>>
  /\ inferNew.turn = inferOld.turn
  /\ inferOut.detected = Moves(inferOld)[2]
  /\ inferOut.found = Moves(inferOld)[2]

\* no legal move from old leads to the placement of new; when the rules
\* engine does not load old there is no legal move at all
NoMoveReproduces(old, new) ==
  \A a \in (IF Loadable(old) THEN MoveSet(old) ELSE {}) :
     Pieces(ApplyMove(old, a)) # Pieces(new)

\* C22: when a recognizer call resolves with a snapshot the rules engine
\* loads, whose placement differs from the handler's position and is
\* reproduced by no single legal move from it, the handler's position being
\* malformed included, the inference raises nothing: the handler does not
\* end in its catch block, and it sets no highlight.
C22_InferenceYieldsNullWithoutRaising ==
  [][ \A i \in 1..Len(visionCalls), r \in VisionResults :
        ( /\ r.error = ""
          /\ Loadable(r.fen)
          /\ Pieces(r.fen) # Pieces(visionCalls[i].fen)
          /\ NoMoveReproduces(visionCalls[i].fen, r.fen)
          /\ VisionResolve(i, r) )
        => /\ lastVisionError' = ""
           /\ lastOpponentMove' \in {lastOpponentMove, NoMove}
    ]_vars

\* C23: when a recognizer call resolves with a snapshot whose placement
\* differs from the handler's position and is reproduced by no single legal
\* move from it, both positions being ones the rules engine loads, the
\* snapshot becomes the authoritative position and no opponent-move
\* highlight is shown afterwards.
C23_NoHighlightWithoutInferredMove ==
  [][ \A i \in 1..Len(visionCalls), r \in VisionResults :
        ( /\ r.error = ""
          /\ Loadable(r.fen)
          /\ Loadable(visionCalls[i].fen)
          /\ Pieces(r.fen) # Pieces(visionCalls[i].fen)
          /\ NoMoveReproduces(visionCalls[i].fen, r.fen)
          /\ VisionResolve(i, r) )
        => /\ currentFen' = r.fen
           /\ lastOpponentMove' = NoMove
    ]_vars

\* C24: when a recognizer call resolves with a result that carries an error,
\* the position, the orientation, the crop, the highlight, the rules-engine
\* object and the skill estimate stay as they are, the error string becomes
\* the status, and the call is finished without another one being started.
C24_ErrorResultSkipsReconciliation ==
  [][ \A i \in 1..Len(visionCalls), r \in VisionResults :
        (r.error # "" /\ VisionResolve(i, r))
        => /\ UNCHANGED <<currentFen, boardOrientation, activeCrop, lastOpponentMove,
                          gameRef, estimatedElo, eloStability, opponentMoveAccuracy>>
           /\ lastVisionError' = r.error
           /\ Len(visionCalls') = Len(visionCalls) - 1
           /\ nCaptures' = nCaptures
    ]_vars

\* an error result has been handled while the board was shown from black's
\* side and held a position other than the starting one: the result's
\* bottomColor 'white' and its empty fen differ from both
C24_Witness ==
  /\ lastVisionError = NeuralBlur
  /\ boardOrientation = "black"
  /\ Pieces(currentFen) # Pieces(INITIAL_FEN)
  /\ Loadable(currentFen)
  /\ visionCalls = <<>>

\* the move from-to is legal in the position fen
LegalIn(fen, from, to) ==
  Loadable(fen) /\ [from |-> from, to |-> to] \in MoveSet(fen)

\* C25: handleManualMove(from, to) of 3.6 changes state exactly when the move
\* is legal in currentFen: then currentFen becomes the position after the
\* move, the highlight is cleared and the override window starts with one
\* pending timer; otherwise currentFen, the highlight, the override flag and
\* its timer stay as they are.
C25_ManualMoveAppliedIffLegal ==
  [][ \A from \in Squares, to \in Squares :
        (variant = "v36" /\ ClickedPair(from, to) /\ handleManualMove(from, to))
        => IF LegalIn(currentFen, from, to)
           THEN /\ currentFen' = ApplyMove(currentFen, [from |-> from, to |-> to])
                /\ lastOpponentMove' = NoMove
                /\ manualOverrideActive'
                /\ manualPauseTimer' = 1
           ELSE UNCHANGED <<currentFen, lastOpponentMove, manualOverrideActive,
                            manualPauseTimer>>
    ]_vars

\* C26: in the cooldown variant a recognizer call starts only while no
\* cooldown timer is pending, at most one timer is pending, the flag stays
\* set while a call or a timer is pending, and once the call has finished,
\* whatever its outcome, the flag is eventually cleared.
C26_CooldownBetweenCallsAndCleared ==
  /\ [][nCaptures' = nCaptures + 1 => (cooldownTimer = 0 /\ visionCalls = <<>>)]_vars
  /\ [](cooldownTimer <= 1)
  /\ []((cooldownTimer > 0 \/ visionCalls # <<>>) => visionCooldown)
  /\ (visionCooldown /\ visionCalls = <<>>) ~> ~visionCooldown

\* a second recognizer call has ended in an error result, and the timer
\* started after it has cleared the flag
C26_Witness ==
  /\ variant = "v26"
  /\ nCaptures = 2
  /\ visionCalls = <<>>
  /\ lastVisionError = NeuralBlur
  /\ cooldownTimer = 0
  /\ ~visionCooldown

\* C27: between handlers the rules-engine object and the authoritative
\* position have the same placement and the same side to move.
C27_GameObjectMatchesPosition ==
  /\ Pieces(gameRef) = Pieces(currentFen)
  /\ gameRef.turn = currentFen.turn

\* C28: in 3.6 every recognizer call that resolves, with an accepted
\* snapshot, an unchanged placement, an error result or an exception in the
\* reconciliation, leaves the in-flight guard released, and the guard is
\* held only while a call is pending.
C28_InFlightGuardReleased ==
  /\ [][ \A i \in 1..Len(visionCalls), r \in VisionResults :
           (variant = "v36" /\ VisionResolve(i, r)) => ~visionInFlight' ]_vars
  /\ [](visionInFlight => visionCalls # <<>>)

\* a first call has ended in the catch block, a second one has passed the
\* guard after it and has ended as well, and the guard is free
C28_Witness ==
  /\ variant = "v36"
  /\ nCaptures = 2
  /\ visionCalls = <<>>
  /\ lastVisionError = SyncCollision
  /\ ~Loadable(currentFen)
  /\ ~visionInFlight

\* C29: in 3.6, while the authoritative position is the starting position
\* and no result is shown, a result is eventually shown unless the position
\* changes: engineResult does not stay null.
C29_ResultEventuallyPublished ==
  (currentFen = INITIAL_FEN /\ engineResult = NoResult)
     ~> (engineResult # NoResult \/ currentFen # INITIAL_FEN)

\* C30: in 3.6, when a recognizer call resolves whose handler holds a
\* position other than the starting one while currentFen is the starting
\* position and the sample list is empty, as handleReset left them during
\* the call, currentFen stays the starting position and the sample list
\* stays empty.
C30_CallBeforeResetHasNoEffect ==
  [][ \A i \in 1..Len(visionCalls), r \in VisionResults :
        ( /\ variant = "v36"
          /\ visionCalls[i].fen # INITIAL_FEN
          /\ currentFen = INITIAL_FEN
          /\ opponentMoveAccuracy = <<>>
          /\ VisionResolve(i, r) )
        => /\ currentFen' = INITIAL_FEN
           /\ opponentMoveAccuracy' = <<>>
    ]_vars

====
